---- MODULE Spec2Model ----
(***************************************************************************)
(* Local3dFixSolver (src/solvers/c3d_local_fix.py): the training loop of   *)
(* train(), the evaluation pass _test(), and the checkpoint pair           *)
(* save_checkpoint / load_checkpoint, as one state machine.                *)
(*                                                                         *)
(* Tensors are abstracted to small naturals: the model parameters are a    *)
(* version number that every optimizer step changes, an optimizer's state  *)
(* is its number of completed steps.  The base class BaselineSolver and    *)
(* the utils module are not part of the source tree; what train() calls    *)
(* from them (load, save, collect, AverageMeter, LearningRate,             *)
(* LossWeightDecay) follows the design document.                           *)
(***************************************************************************)
EXTENDS Integers, Sequences, FiniteSets, TLC

(* ------------------------------ bounds -------------------------------- *)
\* largest cfg.num_iter tried
MaxIter == 4
\* largest cfg.test_interval tried
MaxTestInterval == 2
\* largest cfg.log_interval tried
MaxLogInterval == 2
\* longest training stream (batches the trainloader yields)
MaxStream == 4
\* processes started one after the other on the same work_dir
MaxRuns == 2

\* iteration recorded in the checkpoint that exists before the first run
PreIter == 2
\* the iteration counter never exceeds this within the bounds
IterCap == PreIter + MaxStream

(* ------------------------------ values -------------------------------- *)
Groups == <<"backbone", "top", "local">>
GroupSet == {"backbone", "top", "local"}

\* keys of the dict save_checkpoint pickles
OptKey(g) == IF g = "backbone" THEN "optimizer_backbone"
             ELSE IF g = "top" THEN "optimizer_top" ELSE "optimizer_local"
CheckpointKeys == {"iteration", "model"} \cup {OptKey(g) : g \in GroupSet}

\* what criterion_early can return: (loss, auxiliary count)
CriterionOut == {<<1, 0>>, <<2, 1>>}
\* what _compute_accuracy can return (one condition)
AccVals == {1, 2}

EmptyFn == [k \in {} |-> 0]
NoFile == [exists |-> FALSE, complete |-> FALSE, data |-> EmptyFn]

VARIABLES
    cfg,        \* self.cfg and the length of the train stream (read only)
    files,      \* work_dir: file name -> checkpoint file
    runs,       \* processes started so far
    pc,         \* position of train()
    iter,       \* self.iter
    model,      \* self.model.module.state_dict()
    mode,       \* self.model.training: "train" / "eval"
    opt,        \* group -> optimizer.state_dict()
    grad,       \* group -> "stale" / "zero" / "fresh": the .grad buffers
    lr,         \* lr_backbone, lr_top, lr_local
    lw,         \* lw_early, lw_local
    losses,     \* early_loss, loss_num, local_loss, local_loss_num, loss
    meters,     \* defaultdict name -> AverageMeter
    best_acc,   \* self.best_acc
    best_iter,  \* self.best_iter
    acc,        \* value returned by the last _test()
    tseen,      \* _test: samples of the testloader iterated so far in this pass
    stream,     \* batches the trainloader still yields
    events,     \* what the current loop iteration did so far, in order
    hist        \* bookkeeping about the run (not program state)

vars == <<cfg, files, runs, pc, iter, model, mode, opt, grad, lr, lw, losses,
          meters, best_acc, best_iter, acc, tseen, stream, events, hist>>

(* ------------------- collaborators outside the file ------------------- *)
\* utils.LearningRate.step(it) / utils.LossWeightDecay.step(it): a scheduled
\* value is a pure function of the iteration it is asked for; the curve is a
\* step from c.init to c.final at iteration c.decay_iter.
LearningRate_step(c, it) == IF it < c.decay_iter THEN c.init ELSE c.final
LossWeightDecay_step(c, it) == IF it < c.decay_iter THEN c.init ELSE c.final

Curve(a, d, b) == [init |-> a, decay_iter |-> d, final |-> b]

\* utils.AverageMeter: a count and a sum; update adds one value, reset zeroes
NewMeter == [count |-> 0, sum |-> 0]
MeterNames == {"dataTime", "modelTime", "earlyLoss", "localLoss", "lossNum", "localNum"}
MeterOf(ms, name) == IF name \in DOMAIN ms THEN ms[name] ELSE NewMeter
MeterUpdate(ms, name, val) ==
    [n \in (DOMAIN ms) \cup {name} |->
        IF n = name
        THEN [count |-> MeterOf(ms, n).count + 1, sum |-> MeterOf(ms, n).sum + val]
        ELSE ms[n]]
MeterResetAll(ms) == [n \in DOMAIN ms |-> NewMeter]
NoMeters == [n \in {} |-> NewMeter]

\* BaselineSolver.collect(acc): keep the best score and where it was reached,
\* replaced only by a strictly better one
Improves(a) == a > best_acc[1]

(* --------------------------- configurations --------------------------- *)
\* test_before_train, early_loss_weight, local_loss_weight, and the number of
\* samples of the testloader
Variants ==
    { <<FALSE, Curve(1, 0, 1), Curve(0, 0, 0), 2>>,    \* weights (1, 0) throughout
      <<TRUE,  Curve(0, 0, 0), Curve(1, 0, 1), 1>>,    \* weights (0, 1) throughout
      <<TRUE,  Curve(2, 1, 1), Curve(1, 2, 3), 2>> }   \* both change with the iteration

StreamLens == 1 .. MaxStream

Configs ==
    { [ num_iter          |-> n,
        test_interval     |-> t,
        log_interval      |-> l,
        test_before_train |-> v[1],
        optimizer         |-> "SGD",
        lr_decay_backbone |-> Curve(4, 2, 2),
        lr_decay_top      |-> Curve(8, 1, 4),
        lr_decay_local    |-> Curve(6, 3, 3),
        early_loss_weight |-> v[2],
        local_loss_weight |-> v[3],
        test_samples      |-> v[4],
        train_batches     |-> s ] :
      n \in 1 .. MaxIter, t \in 1 .. MaxTestInterval, l \in 1 .. MaxLogInterval,
      v \in Variants, s \in StreamLens }

\* the other values of cfg.optimizer: Adam, and a kind build_optimizer does
\* not know
OptimizerConfigs ==
    { [c EXCEPT !.optimizer = o] :
        c \in {d \in Configs : d.num_iter = 2 /\ d.test_interval = 1
                                /\ d.log_interval = 1 /\ d.train_batches = 2},
        o \in {"Adam", "RMSprop"} }

(* ------------------------------ files --------------------------------- *)
FileNames == 0 .. IterCap

\* a checkpoint left in work_dir by an earlier training (file 0)
PreData == [iteration |-> PreIter, model |-> 7, optimizer_backbone |-> 5,
            optimizer_top |-> 6, optimizer_local |-> 4]
Restrict(f, S) == [k \in S |-> f[k]]
PreFile(d) == [exists |-> TRUE, complete |-> TRUE, data |-> d]
\* the same with the entry of one live group missing
PreDataNoTop == Restrict(PreData, CheckpointKeys \ {"optimizer_top"})
\* the same with an entry for a group that is not live
PreDataExtra == [k \in CheckpointKeys \cup {"optimizer_extra"} |->
                    IF k = "optimizer_extra" THEN 9 ELSE PreData[k]]

(* ------------------------------ Init ---------------------------------- *)
\* self.best_acc and self.best_iter before line 127 has bound them
NotSet == <<>>
NotSetIter == -2
FreshOpt == [g \in GroupSet |-> 0]
FreshGrad == [g \in GroupSet |-> "stale"]
NoLosses == [early_loss |-> 0, loss_num |-> 0, local_loss |-> 0,
             local_loss_num |-> 0, loss |-> 0]
NoSaved == EmptyFn
FreshHist(saved) ==
    [ startIter |-> -1,                 \* self.iter when the loop begins
      steps     |-> FreshOpt,           \* optimizer steps of each group, this run
      schedArg  |-> EmptyFn,              \* arguments of the five step(...) calls
      incs      |-> 0,                  \* increments of self.iter in this iteration
      tested    |-> {},                 \* counter values at which the loop ran _test
      decided   |-> {},                 \* counter values whose test decision is past
      saves     |-> 0,                  \* self.save() calls of this run
      summaries |-> 0,                  \* final summaries emitted
      loaded    |-> <<>>,               \* <<file, optim>> of a successful load
      evalStart |-> <<>>,               \* counter, model, optimizers, steps when _test began
      evalSeen  |-> -1,                 \* samples iterated by the last finished _test
      passes    |-> 0,                  \* _test passes finished in this run
      killedIn  |-> "",                 \* where the process was when it was killed
      saved     |-> saved ]             \* file -> what save_checkpoint was given

Volatile(saved) ==
    /\ pc = "start"
    /\ iter = 0
    /\ model = 0
    /\ mode = "train"
    /\ opt = FreshOpt
    /\ grad = FreshGrad
    /\ lr = [g \in GroupSet |-> 0]
    /\ lw = [early |-> 0, local |-> 0]
    /\ losses = NoLosses
    /\ meters = NoMeters
    /\ best_acc = NotSet
    /\ best_iter = NotSetIter
    /\ acc = 0
    /\ tseen = 0
    /\ stream = cfg.train_batches
    /\ events = <<>>
    /\ hist = FreshHist(saved)

InitWith(cfgs, pres) ==
    /\ cfg \in cfgs
    /\ \E pre \in pres : files = [n \in FileNames |-> IF n = 0 THEN pre ELSE NoFile]
    /\ runs = 1
    /\ Volatile(NoSaved)

Init == InitWith(Configs \cup OptimizerConfigs, {NoFile, PreFile(PreData)})

(* ------------------------- checkpoint files --------------------------- *)
\* torch.save(state, filename) opens the file for writing, which empties it,
\* writes the pickled dict and closes it; the file is a checkpoint only once
\* it is closed.
TorchSaveOpen(fs, f) == [fs EXCEPT ![f] = [exists |-> TRUE, complete |-> FALSE, data |-> EmptyFn]]
TorchSaveClose(fs, f, state) == [fs EXCEPT ![f] = [exists |-> TRUE, complete |-> TRUE, data |-> state]]

\* torch.load(filename) raises on a missing or an unparsable file
Readable(f) == files[f].exists /\ files[f].complete
Has(f, k) == k \in DOMAIN files[f].data

\* save_checkpoint: the dict it builds (lines 68-74)
CheckpointState ==
    [iteration |-> iter, model |-> model, optimizer_backbone |-> opt["backbone"],
     optimizer_top |-> opt["top"], optimizer_local |-> opt["local"]]

\* load_checkpoint, statement by statement; a KeyError leaves what the
\* statements before it did
GotIteration(f) == Readable(f) /\ Has(f, "iteration")
GotModel(f) == GotIteration(f) /\ Has(f, "model")
Before(g) == IF g = "backbone" THEN {"backbone"}
             ELSE IF g = "top" THEN {"backbone", "top"} ELSE GroupSet
GotOptimizer(f, g) == GotModel(f) /\ \A h \in Before(g) : Has(f, OptKey(h))

LoadRaises(f, optim) == ~GotModel(f) \/ (optim /\ ~GotOptimizer(f, "local"))
LoadedIteration(f) == files[f].data["iteration"]
LoadedModel(f) == IF GotModel(f) THEN files[f].data["model"] ELSE model
\* (mutant) top and local restored from each other's entry
SwapKey(g) == IF g = "top" THEN "optimizer_local"
              ELSE IF g = "local" THEN "optimizer_top" ELSE OptKey(g)
LoadedOptimizerSwapped(f, optim, g) ==
    IF optim /\ GotOptimizer(f, g) THEN files[f].data[SwapKey(g)] ELSE opt[g]

\* (mutant) the optimizers restored whatever optim says
LoadedOptimizerAlways(f, optim, g) ==
    IF GotOptimizer(f, g) THEN files[f].data[OptKey(g)] ELSE opt[g]

LoadedOptimizer(f, optim, g) ==
    IF optim /\ GotOptimizer(f, g) THEN files[f].data[OptKey(g)] ELSE opt[g]

load_checkpoint(f, optim) ==
    /\ model' = LoadedModel(f)
    /\ opt' = [g \in GroupSet |-> LoadedOptimizer(f, optim, g)]

(* ------------------------------ train --------------------------------- *)
Emit(e) == events' = Append(events, e)

\* (mutant) build_optimizer with a default branch instead of the raise
KnownOptimizerAny == TRUE

\* lines 32, 45, 58: the kinds build_optimizer has a branch for
KnownOptimizer == cfg.optimizer \in {"SGD", "Adam"}

\* lines 100-102 with the raise of line 59: train() ends in build_optimizer
BuildRaises ==
    /\ pc = "start"
    /\ ~KnownOptimizer
    /\ pc' = "failed"
    /\ UNCHANGED <<cfg, tseen, files, runs, iter, model, mode, opt, grad, lr, lw, losses,
                   meters, best_acc, best_iter, acc, stream, events, hist>>

\* lines 100-105: build_data, build_model, build_optimizer, build_loss, iter = 0
Build ==
    /\ pc = "start"
    /\ KnownOptimizer
    /\ iter' = 0
    /\ model' = 0
    /\ opt' = FreshOpt
    /\ grad' = FreshGrad
    /\ mode' = "train"
    /\ pc' = "load"
    /\ UNCHANGED <<cfg, tseen, files, runs, lr, lw, losses, meters, best_acc, best_iter,
                   acc, stream, events, hist>>

\* line 120, self.load(): nothing to load, or resume from a checkpoint of
\* work_dir, the counter taking the iteration load_checkpoint returns
Load ==
    /\ pc = "load"
    /\ \/ /\ pc' = "pretest"
          /\ UNCHANGED <<iter, model, opt, hist>>
       \/ \E f \in {n \in FileNames : n = 0 \/ files[n].exists}, optim \in BOOLEAN :
            /\ load_checkpoint(f, optim)
            /\ IF LoadRaises(f, optim)
               THEN pc' = "failed" /\ UNCHANGED <<iter, hist>>
               ELSE /\ iter' = LoadedIteration(f)
                    /\ hist' = [hist EXCEPT !.loaded = <<f, optim>>]
                    /\ pc' = "pretest"
    /\ UNCHANGED <<cfg, tseen, files, runs, mode, grad, lr, lw, losses, meters, best_acc,
                   best_iter, acc, stream, events>>

\* lines 208-214: _test puts the model in inference mode and starts its lists
EnterTest ==
    /\ mode' = "eval"
    /\ tseen' = 0

\* line 123: the evaluation before training, or none
PreTest ==
    /\ pc = "pretest"
    /\ IF cfg.test_before_train
       THEN /\ EnterTest
            /\ hist' = [hist EXCEPT !.evalStart = <<iter, model, opt, hist.steps>>]
            /\ pc' = "pretest_eval"
       ELSE /\ pc' = "meters0"
            /\ UNCHANGED <<mode, tseen, hist>>
    /\ UNCHANGED <<cfg, files, runs, iter, model, opt, grad, lr, lw, losses, meters,
                   best_acc, best_iter, acc, stream, events>>

InTest == pc \in {"pretest_eval", "test_eval"}

\* (mutant) the loop over the testloader left after its first sample
TestExhaustedEarly == tseen >= 1

\* line 216: the testloader has no sample left
TestExhausted == tseen = cfg.test_samples

\* lines 216-226: one sample of the testloader through the model
TestSample ==
    /\ InTest
    /\ ~TestExhausted
    /\ tseen' = tseen + 1
    /\ UNCHANGED <<cfg, files, runs, pc, iter, model, mode, opt, grad, lr, lw, losses,
                   meters, best_acc, best_iter, acc, stream, events, hist>>

\* what the return of _test leaves in the bookkeeping
Passed(h) == [h EXCEPT !.evalSeen = tseen, !.passes = @ + 1]

\* lines 228-247 and line 124: accuracies computed and written, the value
\* _test returns is dropped
PreTestReturn ==
    /\ pc = "pretest_eval"
    /\ TestExhausted
    /\ hist' = Passed(hist)
    /\ pc' = "meters0"
    /\ UNCHANGED <<cfg, tseen, files, runs, iter, model, mode, opt, grad, lr, lw, losses,
                   meters, best_acc, best_iter, acc, stream, events>>

\* (mutant) the best score left as it is found
InitBestKeep ==
    /\ pc = "meters0"
    /\ meters' = NoMeters
    /\ hist' = [hist EXCEPT !.startIter = iter]
    /\ pc' = "fetch"
    /\ UNCHANGED <<cfg, tseen, files, runs, iter, model, mode, opt, grad, lr, lw, losses,
                   best_acc, best_iter, acc, stream, events>>

\* lines 127-130: best score and meters
InitBest ==
    /\ pc = "meters0"
    /\ best_acc' = <<0>>
    /\ best_iter' = -1
    /\ meters' = NoMeters
    /\ hist' = [hist EXCEPT !.startIter = iter]
    /\ pc' = "fetch"
    /\ UNCHANGED <<cfg, tseen, files, runs, iter, model, mode, opt, grad, lr, lw, losses,
                   acc, stream, events>>

\* (mutant) model.train() called once before the loop instead of in it
FetchKeepMode ==
    /\ pc = "fetch"
    /\ IF stream = 0
       THEN /\ pc' = "exhausted"
            /\ UNCHANGED <<meters, stream, events, hist>>
       ELSE /\ stream' = stream - 1
            /\ meters' = MeterUpdate(meters, "dataTime", 1)
            /\ events' = <<"batch">>
            /\ hist' = [hist EXCEPT !.incs = 0, !.schedArg = EmptyFn]
            /\ pc' = "sched"
    /\ UNCHANGED <<cfg, tseen, files, runs, iter, model, mode, opt, grad, lr, lw, losses,
                   best_acc, best_iter, acc>>

\* line 131: the for statement asks the trainloader for the next batch and
\* leaves the loop when there is none; lines 132-134 begin the body
Fetch ==
    /\ pc = "fetch"
    /\ IF stream = 0
       THEN /\ pc' = "exhausted"
            /\ UNCHANGED <<mode, meters, stream, events, hist>>
       ELSE /\ stream' = stream - 1
            /\ mode' = "train"
            /\ meters' = MeterUpdate(meters, "dataTime", 1)
            /\ events' = <<"batch">>
            /\ hist' = [hist EXCEPT !.incs = 0, !.schedArg = EmptyFn]
            /\ pc' = "sched"
    /\ UNCHANGED <<cfg, tseen, files, runs, iter, model, opt, grad, lr, lw, losses,
                   best_acc, best_iter, acc>>

ScheduleNames == {"lr_backbone", "lr_top", "lr_local", "lw_early", "lw_local"}

\* the five step(...) calls, all given the iteration it
SchedulesAt(it) ==
    /\ pc = "sched"
    /\ lr' = [backbone |-> LearningRate_step(cfg.lr_decay_backbone, it),
              top      |-> LearningRate_step(cfg.lr_decay_top, it),
              local    |-> LearningRate_step(cfg.lr_decay_local, it)]
    /\ lw' = [early |-> LossWeightDecay_step(cfg.early_loss_weight, it),
              local |-> LossWeightDecay_step(cfg.local_loss_weight, it)]
    /\ hist' = [hist EXCEPT !.schedArg = [n \in ScheduleNames |-> it]]
    /\ Emit("schedules")
    /\ pc' = "inc"
    /\ UNCHANGED <<cfg, tseen, files, runs, iter, model, mode, opt, grad, losses, meters,
                   best_acc, best_iter, acc, stream>>

\* (mutant) the schedules asked after the counter has advanced
SchedulesPostIncrement == SchedulesAt(iter + 1)

\* lines 136-141: the five scheduled values of this iteration, asked for the
\* counter as it is before line 143
Schedules == SchedulesAt(iter)

\* line 143
Increment ==
    /\ pc = "inc"
    /\ iter' = iter + 1
    /\ hist' = [hist EXCEPT !.incs = @ + 1]
    /\ Emit("increment")
    /\ pc' = "forward"
    /\ UNCHANGED <<cfg, tseen, files, runs, model, mode, opt, grad, lr, lw, losses, meters,
                   best_acc, best_iter, acc, stream>>

\* (mutant) the two terms added without their weights
TotalLossUnweighted(lw_early, early_loss, lw_local, local_loss) ==
    early_loss + local_loss

\* line 151
TotalLoss(lw_early, early_loss, lw_local, local_loss) ==
    lw_early * early_loss + lw_local * local_loss

\* lines 147-151: forward pass, the two loss terms, the combined loss
Forward ==
    /\ pc = "forward"
    /\ \E e \in CriterionOut, l \in CriterionOut :
         losses' = [early_loss |-> e[1], loss_num |-> e[2],
                    local_loss |-> l[1], local_loss_num |-> l[2],
                    loss |-> TotalLoss(lw.early, e[1], lw.local, l[1])]
    /\ Emit("forward")
    /\ pc' = "backward"
    /\ UNCHANGED <<cfg, tseen, files, runs, iter, model, mode, opt, grad, lr, lw, meters,
                   best_acc, best_iter, acc, stream, hist>>

\* lines 154-157: zero_grad of the three optimizers, then loss.backward()
Backward ==
    /\ pc = "backward"
    /\ grad' = [g \in GroupSet |-> "fresh"]
    /\ events' = events \o <<"zero_backbone", "zero_top", "zero_local", "backward">>
    /\ pc' = "step_backbone"
    /\ UNCHANGED <<cfg, tseen, files, runs, iter, model, mode, opt, lr, lw, losses, meters,
                   best_acc, best_iter, acc, stream, hist>>

\* (mutant) local stepped before top
AfterStepLocalFirst(g) == IF g = "backbone" THEN "step_local"
                          ELSE IF g = "local" THEN "step_top" ELSE "meters"

\* (mutant) the step of local left out
AfterStepSkipLocal(g) == IF g = "backbone" THEN "step_top" ELSE "meters"

\* lines 158-160: optimizer_<g>.step(), one group after the other
AfterStep(g) == IF g = "backbone" THEN "step_top"
                ELSE IF g = "top" THEN "step_local" ELSE "meters"
OptimizerStep(g) ==
    /\ pc = "step_" \o g
    /\ opt' = [opt EXCEPT ![g] = @ + 1]
    /\ model' = model + 1
    /\ hist' = [hist EXCEPT !.steps[g] = @ + 1]
    /\ Emit("step_" \o g)
    /\ pc' = AfterStep(g)
    /\ UNCHANGED <<cfg, tseen, files, runs, iter, mode, grad, lr, lw, losses, meters,
                   best_acc, best_iter, acc, stream>>

\* (mutant) the two count meters fed only by a non-zero count
UpdateMetersNonZero ==
    /\ pc = "meters"
    /\ LET m1 == MeterUpdate(MeterUpdate(MeterUpdate(meters,
                    "modelTime", 1),
                    "earlyLoss", losses.early_loss),
                    "localLoss", losses.local_loss)
           m2 == IF losses.loss_num > 0
                 THEN MeterUpdate(m1, "lossNum", losses.loss_num) ELSE m1
       IN  meters' = IF losses.local_loss_num > 0
                     THEN MeterUpdate(m2, "localNum", losses.local_loss_num) ELSE m2
    /\ pc' = "log"
    /\ UNCHANGED <<cfg, tseen, files, runs, iter, model, mode, opt, grad, lr, lw, losses,
                   best_acc, best_iter, acc, stream, events, hist>>

\* lines 162-166
UpdateMeters ==
    /\ pc = "meters"
    /\ meters' = MeterUpdate(MeterUpdate(MeterUpdate(MeterUpdate(MeterUpdate(meters,
                    "modelTime", 1),
                    "earlyLoss", losses.early_loss),
                    "localLoss", losses.local_loss),
                    "lossNum", losses.loss_num),
                    "localNum", losses.local_loss_num)
    /\ pc' = "log"
    /\ UNCHANGED <<cfg, tseen, files, runs, iter, model, mode, opt, grad, lr, lw, losses,
                   best_acc, best_iter, acc, stream, events, hist>>

\* (mutant) the evaluation placed before the checkpoint
NextStageTestFirst(stage) ==
    IF stage = "log" THEN "test" ELSE IF stage = "test" THEN "save" ELSE "check"

\* lines 168-197: the blocks that follow the meters, in the order of the text:
\* log, save, test, termination check
NextStage(stage) ==
    IF stage = "log" THEN "save" ELSE IF stage = "save" THEN "test" ELSE "check"

\* line 169
LogDue == iter % cfg.log_interval = 0

\* (mutant) the reset of the loss meters only
ResetLossMeters(ms) ==
    [n \in DOMAIN ms |-> IF n \in {"dataTime", "modelTime"} THEN ms[n] ELSE NewMeter]

\* lines 183-184: every meter the dict holds is reset
ResetMeters(ms) == MeterResetAll(ms)

\* lines 169-187: print and write the averages, reset every meter
Log ==
    /\ pc = "log"
    /\ IF LogDue
       THEN /\ meters' = ResetMeters(meters)
            /\ Emit("log")
       ELSE UNCHANGED <<meters, events>>
    /\ pc' = NextStage("log")
    /\ UNCHANGED <<cfg, tseen, files, runs, iter, model, mode, opt, grad, lr, lw, losses,
                   best_acc, best_iter, acc, stream, hist>>

\* BaselineSolver.save(): one checkpoint file per save, named by the iteration
FileOf(it) == it

\* (mutant) the checkpoint gated like the log
SaveWhenLogDue ==
    /\ pc = "save"
    /\ IF LogDue
       THEN /\ files' = TorchSaveOpen(files, FileOf(iter))
            /\ hist' = [hist EXCEPT !.saves = @ + 1]
            /\ Emit("save")
            /\ pc' = "saving"
       ELSE /\ pc' = "test"
            /\ UNCHANGED <<files, hist, events>>
    /\ UNCHANGED <<cfg, tseen, runs, iter, model, mode, opt, grad, lr, lw, losses, meters,
                   best_acc, best_iter, acc, stream>>

\* line 190, self.save(), up to the moment torch.save (line 75) has opened
\* the file
Save ==
    /\ pc = "save"
    /\ files' = TorchSaveOpen(files, FileOf(iter))
    /\ hist' = [hist EXCEPT !.saves = @ + 1,
                            !.saved = [f \in (DOMAIN @) \cup {FileOf(iter)} |->
                                         IF f = FileOf(iter)
                                         THEN <<iter, model, opt>> ELSE @[f]]]
    /\ Emit("save")
    /\ pc' = "saving"
    /\ UNCHANGED <<cfg, tseen, runs, iter, model, mode, opt, grad, lr, lw, losses, meters,
                   best_acc, best_iter, acc, stream>>

\* lines 75-77: torch.save writes the dict and closes the file
SaveWrite ==
    /\ pc = "saving"
    /\ files' = TorchSaveClose(files, FileOf(iter), CheckpointState)
    /\ Emit("saved")
    /\ pc' = NextStage("save")
    /\ UNCHANGED <<cfg, tseen, runs, iter, model, mode, opt, grad, lr, lw, losses, meters,
                   best_acc, best_iter, acc, stream, hist>>

\* (mutant) the evaluation one iteration late
TestDueLate == (iter - 1) % cfg.test_interval = 0

\* line 193
TestDue == iter % cfg.test_interval = 0

\* line 193, and the call of _test of line 194 when it is due
Test ==
    /\ pc = "test"
    /\ IF TestDue
       THEN /\ EnterTest
            /\ Emit("test")
            /\ hist' = [hist EXCEPT !.tested = @ \cup {iter}, !.decided = @ \cup {iter},
                                    !.evalStart = <<iter, model, opt, hist.steps>>]
            /\ pc' = "test_eval"
       ELSE /\ hist' = [hist EXCEPT !.decided = @ \cup {iter}]
            /\ pc' = NextStage("test")
            /\ UNCHANGED <<mode, tseen, events>>
    /\ UNCHANGED <<cfg, files, runs, iter, model, opt, grad, lr, lw, losses, meters,
                   best_acc, best_iter, acc, stream>>

\* lines 228-247 and lines 194-195: _test returns the accuracy, collect(acc)
\* keeps it when it is the best so far
Collect ==
    /\ pc = "test_eval"
    /\ TestExhausted
    /\ \E a \in AccVals :
         /\ acc' = a
         /\ IF Improves(a)
            THEN best_acc' = <<a>> /\ best_iter' = iter
            ELSE UNCHANGED <<best_acc, best_iter>>
    /\ Emit("collect")
    /\ hist' = Passed(hist)
    /\ pc' = NextStage("test")
    /\ UNCHANGED <<cfg, tseen, files, runs, iter, model, mode, opt, grad, lr, lw, losses,
                   meters, stream>>

\* (mutant) the budget test one iteration late
BudgetReachedLate == iter = cfg.num_iter + 1

\* (mutant) the budget test as a threshold
BudgetReachedOrPassed == iter >= cfg.num_iter

\* line 197
BudgetReached == iter = cfg.num_iter

\* lines 197-204: final summary and return, or on to the next batch
Check ==
    /\ pc = "check"
    /\ IF BudgetReached
       THEN /\ hist' = [hist EXCEPT !.summaries = @ + 1]
            /\ Emit("summary")
            /\ pc' = "terminated"
       ELSE /\ pc' = "fetch"
            /\ UNCHANGED <<hist, events>>
    /\ UNCHANGED <<cfg, tseen, files, runs, iter, model, mode, opt, grad, lr, lw, losses,
                   meters, best_acc, best_iter, acc, stream>>

Next ==
    \/ Build
    \/ BuildRaises
    \/ Load
    \/ PreTest
    \/ TestSample
    \/ PreTestReturn
    \/ InitBest
    \/ Fetch
    \/ Schedules
    \/ Increment
    \/ Forward
    \/ Backward
    \/ \E g \in GroupSet : OptimizerStep(g)
    \/ UpdateMeters
    \/ Log
    \/ Save
    \/ SaveWrite
    \/ Test
    \/ Collect
    \/ Check

Spec == Init /\ [][Next]_vars

(* ------------------- the process dies and is restarted ---------------- *)
Stopped == pc \in {"terminated", "exhausted", "failed", "killed"}

\* what is left of a process that is gone: its files
Gone(where, h) ==
    /\ iter' = 0
    /\ model' = 0
    /\ mode' = "train"
    /\ opt' = FreshOpt
    /\ grad' = FreshGrad
    /\ lr' = [g \in GroupSet |-> 0]
    /\ lw' = [early |-> 0, local |-> 0]
    /\ losses' = NoLosses
    /\ meters' = NoMeters
    /\ best_acc' = NotSet
    /\ best_iter' = NotSetIter
    /\ acc' = 0
    /\ tseen' = 0
    /\ stream' = cfg.train_batches
    /\ events' = <<>>
    /\ pc' = where
    /\ hist' = h

\* the process is killed, at any point of train()
Kill ==
    /\ ~Stopped
    /\ pc # "start"
    /\ Gone("killed", [FreshHist(hist.saved) EXCEPT !.killedIn = pc])
    /\ UNCHANGED <<cfg, tseen, files, runs>>

\* train() is started again in a new process on the same work_dir
Restart ==
    /\ Stopped
    /\ runs < MaxRuns
    /\ runs' = runs + 1
    /\ Gone("start", FreshHist(hist.saved))
    /\ UNCHANGED <<cfg, tseen, files>>

CrashConfigs ==
    { c \in Configs : /\ c.num_iter \in {1, 2}
                      /\ c.test_interval = 2
                      /\ c.log_interval = 1
                      /\ c.early_loss_weight = Curve(1, 0, 1)
                      /\ c.train_batches \in {1, 2} }
    \cup { c \in Configs : /\ c.num_iter = 1
                           /\ c.test_interval = 1
                           /\ c.log_interval = 1
                           /\ c.early_loss_weight = Curve(0, 0, 0)
                           /\ c.train_batches = 1 }
    \cup { c \in OptimizerConfigs : /\ c.optimizer = "RMSprop"
                                    /\ c.early_loss_weight = Curve(1, 0, 1) }

CrashInit ==
    InitWith(CrashConfigs,
             {NoFile, PreFile(PreData), PreFile(PreDataNoTop), PreFile(PreDataExtra)})

CrashNext == Next \/ Kill \/ Restart

CrashSpec == CrashInit /\ [][CrashNext]_vars

(* ------------------------------ claims -------------------------------- *)
Count(seq, e) == Cardinality({i \in DOMAIN seq : seq[i] = e})
\* position of the first e in seq, 0 when there is none
Pos(seq, e) == IF \E i \in DOMAIN seq : seq[i] = e
               THEN CHOOSE i \in DOMAIN seq : seq[i] = e /\ \A j \in 1 .. (i - 1) : seq[j] # e
               ELSE 0
\* positions of train() after line 143 of the current iteration
AfterIncrement == {"forward", "backward", "step_backbone", "step_top", "step_local",
                   "meters", "log", "save", "saving", "test", "test_eval", "check"}
\* positions between two iterations, or after the loop
BetweenIterations == {"fetch", "terminated", "exhausted"}
LoopBegun == hist.startIter >= 0
Batches == cfg.train_batches - stream

\* C1: the loop runs the evaluator (_test, then collect) at the counter value
\* k if and only if k is a positive multiple of cfg.test_interval: of the
\* counter values whose iteration is past line 193, the ones that were tested
\* are exactly the multiples, every value the counter takes in the loop gets
\* its decision, and within the iteration "test" is followed by "collect".
C1_EvaluatorAtMultiples ==
    /\ hist.tested = {k \in hist.decided : k > 0 /\ k % cfg.test_interval = 0}
    /\ (LoopBegun /\ pc \in BetweenIterations \cup {"check"})
          => hist.decided = (hist.startIter + 1) .. iter
    /\ pc = "check" =>
          /\ Count(events, "test") = (IF iter % cfg.test_interval = 0 THEN 1 ELSE 0)
          /\ Count(events, "collect") = Count(events, "test")
          /\ Pos(events, "test") > 0 => Pos(events, "collect") = Pos(events, "test") + 1

C1_Witness ==
    /\ pc = "terminated"
    /\ cfg.test_interval = 2
    /\ hist.startIter = 0
    /\ hist.decided = {1, 2, 3, 4}
    /\ hist.tested = {2, 4}

\* C2: in every iteration the three learning-rate schedules and the two
\* loss-weight schedules are asked for the counter's value before line 143
\* (the i-th iteration of a run started at 0 asks for i-1), and the counter
\* then goes up by exactly 1 in that iteration.
C2_SchedulesPreIncrement ==
    /\ pc = "inc" =>
          /\ hist.incs = 0
          /\ DOMAIN hist.schedArg = ScheduleNames
          /\ \A n \in ScheduleNames : hist.schedArg[n] = iter
    /\ pc \in AfterIncrement =>
          /\ hist.incs = 1
          /\ DOMAIN hist.schedArg = ScheduleNames
          /\ \A n \in ScheduleNames : hist.schedArg[n] = iter - 1
          /\ hist.startIter = 0 => \A n \in ScheduleNames : hist.schedArg[n] = Batches - 1
          /\ lr = [backbone |-> LearningRate_step(cfg.lr_decay_backbone, iter - 1),
                   top      |-> LearningRate_step(cfg.lr_decay_top, iter - 1),
                   local    |-> LearningRate_step(cfg.lr_decay_local, iter - 1)]
          /\ lw = [early |-> LossWeightDecay_step(cfg.early_loss_weight, iter - 1),
                   local |-> LossWeightDecay_step(cfg.local_loss_weight, iter - 1)]
    /\ (LoopBegun /\ pc \in AfterIncrement \cup BetweenIterations)
          => iter = hist.startIter + Batches

C2_Witness ==
    /\ pc = "forward"
    /\ hist.startIter = 0
    /\ Batches = 2
    /\ hist.schedArg["lw_early"] = 1
    /\ iter = 2
    /\ cfg.early_loss_weight = Curve(2, 1, 1)
    /\ lw.early = 1

\* C3: from counter 0, with budget num_iter = N >= 1 and a stream of at least
\* N batches, train() makes exactly N optimizer steps on each group, emits the
\* final summary once, when the counter is N, and returns; nothing happens
\* after that, and the loop is never left for lack of batches.
C3_StopsAtBudget ==
    (hist.startIter = 0 /\ cfg.train_batches >= cfg.num_iter) =>
        /\ pc # "exhausted"
        /\ \A g \in GroupSet : hist.steps[g] <= cfg.num_iter
        /\ pc = "terminated" =>
              /\ iter = cfg.num_iter
              /\ \A g \in GroupSet : hist.steps[g] = cfg.num_iter
              /\ hist.summaries = 1
              /\ ~ENABLED Next
        /\ pc # "terminated" => hist.summaries = 0
        /\ pc \in {"fetch", "check"} => ENABLED (Fetch \/ Check)

C3_Witness ==
    /\ pc = "terminated"
    /\ hist.startIter = 0
    /\ cfg.num_iter = 1
    /\ cfg.train_batches > 1
    /\ hist.steps = [g \in GroupSet |-> 1]
    /\ hist.summaries = 1

\* C4 as stated: train() leaves the loop only with the counter at
\* cfg.num_iter and the final summary emitted.
C4_ExitOnlyAtBudget ==
    pc \in {"terminated", "exhausted"} => (iter = cfg.num_iter /\ hist.summaries = 1)

\* C4 amended: train() leaves the loop either by the return of line 203, with
\* the counter at cfg.num_iter and the summary emitted once, or because the
\* trainloader has no batch left, with no summary and the counter at its
\* start plus the length of the stream; when the stream has at least
\* num_iter - start batches, start < num_iter, it is the return.
C4_ExitAtBudgetOrExhaustion ==
    /\ pc = "terminated" => (iter = cfg.num_iter /\ hist.summaries = 1)
    /\ pc = "exhausted" =>
          /\ stream = 0
          /\ hist.summaries = 0
          /\ iter = hist.startIter + cfg.train_batches
          /\ ~(hist.startIter < cfg.num_iter
               /\ cfg.train_batches >= cfg.num_iter - hist.startIter)
    /\ (LoopBegun /\ pc \notin {"terminated", "exhausted"}) => hist.summaries = 0

C4_Witness ==
    /\ pc = "exhausted"
    /\ hist.startIter = 0
    /\ cfg.num_iter = 3
    /\ iter = 2
    /\ hist.summaries = 0

\* a load from file f with the given optim flag has just returned
JustLoaded(f, optim) == pc = "pretest" /\ hist.loaded = <<f, optim>>

\* C5: save_checkpoint followed by load_checkpoint(optim=True) of the same
\* file gives back the model state and the backbone, top and local optimizer
\* states that were saved, and returns the iteration recorded at save time.
C5_CheckpointRoundTrip ==
    \A f \in DOMAIN hist.saved :
        JustLoaded(f, TRUE) =>
            /\ iter = hist.saved[f][1]
            /\ model = hist.saved[f][2]
            /\ opt = hist.saved[f][3]

\* a checkpoint of a resumed run, whose three optimizer states differ, is
\* loaded by the next process
C5_Witness ==
    /\ runs = 2
    /\ JustLoaded(3, TRUE)
    /\ 3 \in DOMAIN hist.saved
    /\ hist.saved[3] = <<3, 10, [backbone |-> 6, top |-> 7, local |-> 5]>>
    /\ opt = [backbone |-> 6, top |-> 7, local |-> 5]

\* C6: load_checkpoint with optim=False replaces the model parameters by the
\* checkpoint's, leaves the three optimizer states as they were, and returns
\* the iteration recorded at save time.
C6_LoadWeightsOnly ==
    [][ \A f \in FileNames :
          (pc = "load" /\ JustLoaded(f, FALSE)') =>
              /\ opt' = opt
              /\ model' = files[f].data["model"]
              /\ iter' = files[f].data["iteration"]
              /\ f \in DOMAIN hist.saved =>
                    (iter' = hist.saved[f][1] /\ model' = hist.saved[f][2]) ]_vars

C6_Witness ==
    /\ runs = 2
    /\ JustLoaded(3, FALSE)
    /\ 3 \in DOMAIN hist.saved
    /\ hist.saved[3][3] = [backbone |-> 6, top |-> 7, local |-> 5]
    /\ opt = FreshOpt
    /\ model = 10
    /\ iter = 3

\* C7: whenever the process is killed, every checkpoint file of work_dir is
\* either absent or a complete checkpoint (iteration, model and the three
\* optimizer states).
IsCheckpoint(file) == file.complete /\ DOMAIN file.data = CheckpointKeys
C7_SaveAtomic ==
    pc = "killed" =>
        \A f \in FileNames \ {0} : files[f].exists => IsCheckpoint(files[f])

\* C8: loading the optimizer states fails whenever the optimizer entries of
\* the checkpoint are not exactly those of the live groups backbone, top and
\* local: a load with optim=True that returned has read such a file.
OptimizerEntries(file) == DOMAIN file.data \ {"iteration", "model"}
C8_LoadChecksGroupNames ==
    \A f \in FileNames :
        JustLoaded(f, TRUE) =>
            OptimizerEntries(files[f]) = {OptKey(g) : g \in GroupSet}

\* C9: the loss that is backpropagated is lw_early * early_loss + lw_local *
\* local_loss with the two weights of this iteration; with weights (1, 0) it
\* is the early term and with (0, 1) the local term.
C9_WeightedLoss ==
    pc \in AfterIncrement \ {"forward"} =>
        LET we == LossWeightDecay_step(cfg.early_loss_weight, iter - 1)
            wl == LossWeightDecay_step(cfg.local_loss_weight, iter - 1)
        IN  /\ losses.loss = we * losses.early_loss + wl * losses.local_loss
            /\ (we = 1 /\ wl = 0) => losses.loss = losses.early_loss
            /\ (we = 0 /\ wl = 1) => losses.loss = losses.local_loss

C9_Witness ==
    /\ pc = "backward"
    /\ lw = [early |-> 1, local |-> 0]
    /\ losses.early_loss = 1
    /\ losses.local_loss = 2
    /\ losses.loss = 1

\* C10: every iteration calls self.save() exactly once, whatever
\* log_interval, test_interval and the counter are, after the log and before
\* the evaluation and the termination check of that iteration.
C10_SaveEveryIteration ==
    /\ pc \in {"saving", "test", "test_eval", "check", "terminated"} =>
          /\ Count(events, "save") = 1
          /\ Pos(events, "test") = 0 \/ Pos(events, "save") < Pos(events, "test")
          /\ Pos(events, "summary") = 0 \/ Pos(events, "save") < Pos(events, "summary")
          /\ Pos(events, "log") < Pos(events, "save")
    /\ pc \in AfterIncrement \ {"saving", "test", "test_eval", "check"}
          => Count(events, "save") = 0
    /\ (LoopBegun /\ pc \in {"test", "test_eval", "check"} \cup BetweenIterations)
          => hist.saves = iter - hist.startIter

C10_Witness ==
    /\ pc = "check"
    /\ cfg.log_interval = 2
    /\ cfg.test_interval = 2
    /\ iter = 1
    /\ events = <<"batch", "schedules", "increment", "forward", "zero_backbone",
                  "zero_top", "zero_local", "backward", "step_backbone", "step_top",
                  "step_local", "save", "saved">>

\* C11: with a cfg.optimizer that is neither SGD nor Adam, build_optimizer
\* raises and train() ends before any training: no forward pass, no optimizer
\* step, no increment of the counter, no checkpoint saved.
C11_UnknownOptimizerAborts ==
    cfg.optimizer \notin {"SGD", "Adam"} =>
        /\ pc \in {"start", "failed"}
        /\ events = <<>>
        /\ hist.steps = FreshOpt
        /\ opt = FreshOpt
        /\ model = 0
        /\ hist.incs = 0
        /\ iter = 0
        /\ hist.saves = 0
        /\ \A f \in FileNames \ {0} : ~files[f].exists

C11_Witness ==
    /\ pc = "failed"
    /\ cfg.optimizer = "RMSprop"
    /\ hist.steps = FreshOpt

TrainingState == <<iter, model, opt, hist.steps>>

\* C12: an evaluation pass goes through the whole testloader, each sample
\* once, and leaves the training state alone: from its beginning to its
\* return no optimizer step is made and the model parameters, the three
\* optimizer states and the counter are what they were.
C12_TestLeavesTrainingState ==
    /\ InTest => (hist.evalStart = TrainingState /\ tseen <= cfg.test_samples)
    /\ hist.passes > 0 => hist.evalSeen = cfg.test_samples
    /\ (pc = "meters0" /\ cfg.test_before_train) =>
          (hist.passes = 1 /\ hist.evalStart = TrainingState)
    /\ (pc = "check" /\ iter \in hist.tested) =>
          (hist.passes > 0 /\ hist.evalStart = TrainingState)

C12_Witness ==
    /\ pc = "check"
    /\ iter = 2
    /\ cfg.test_samples = 2
    /\ hist.evalSeen = 2
    /\ hist.passes = 3
    /\ hist.evalStart = <<2, 6, [g \in GroupSet |-> 2], [g \in GroupSet |-> 2]>>

StepsDone == AfterIncrement \ {"forward", "backward", "step_backbone", "step_top", "step_local"}

\* C13: in every iteration the gradients of the three groups are zeroed, then
\* the combined loss is backpropagated once, then backbone, top and local are
\* stepped in this order, each once; no group is stepped before the backward
\* pass or before all gradients were zeroed.
Prelude == <<"batch", "schedules", "increment", "forward">>
GradientProtocol == <<"zero_backbone", "zero_top", "zero_local", "backward",
                      "step_backbone", "step_top", "step_local">>
GradientEvents == {GradientProtocol[i] : i \in DOMAIN GradientProtocol}
C13_GradientProtocol ==
    /\ \A i \in DOMAIN events :
          IF i \in (Len(Prelude) + 1) .. (Len(Prelude) + Len(GradientProtocol))
          THEN events[i] = GradientProtocol[i - Len(Prelude)]
          ELSE events[i] \notin GradientEvents
    /\ pc \in StepsDone =>
          /\ Len(events) >= Len(Prelude) + Len(GradientProtocol)
          /\ \A g \in GroupSet : grad[g] = "fresh" /\ hist.steps[g] = Batches

C13_Witness ==
    /\ pc = "meters"
    /\ Batches = 2
    /\ events = <<"batch", "schedules", "increment", "forward", "zero_backbone",
                  "zero_top", "zero_local", "backward", "step_backbone", "step_top",
                  "step_local">>

\* positions of an iteration from the schedules to the last optimizer step
TrainingPass == {"sched", "inc", "forward", "backward", "step_backbone", "step_top",
                 "step_local", "meters"}

\* C14: training and evaluation do not overlap and each runs in its mode: the
\* forward and backward passes and the steps of an iteration run with the
\* model in training mode, also in the first iteration after an evaluation;
\* the forward passes of _test run in inference mode; no optimizer step is
\* made between the beginning and the return of _test.
C14_ModesExclusive ==
    /\ pc \in TrainingPass => mode = "train"
    /\ InTest => (mode = "eval" /\ hist.evalStart[4] = hist.steps)
    /\ (pc \in TrainingPass /\ hist.passes > 0) => hist.evalSeen = cfg.test_samples

C14_Witness ==
    /\ pc = "forward"
    /\ mode = "train"
    /\ hist.tested = {1}
    /\ hist.passes = 2
    /\ iter = 2

\* iterations from the last log point, or from the beginning of the loop, up
\* to and including the iteration that takes the counter to it
SinceResetAt(it) ==
    LET l == cfg.log_interval
        lastLog == ((it - 1) \div l) * l
    IN  it - (IF hist.startIter > lastLog THEN hist.startIter ELSE lastLog)
SinceReset == SinceResetAt(iter)
LogPassed == {"save", "saving", "test", "test_eval", "check", "terminated"}

\* C15: the averages are emitted and all meters reset exactly in the
\* iterations whose counter is a multiple of cfg.log_interval; after the reset
\* every meter has count 0 and sum 0; between two log points every meter gets
\* one update per iteration, so that at a log point its count is the number
\* of iterations since the last one.
C15_LogAtMultiples ==
    /\ pc \in LogPassed =>
          Count(events, "log") = (IF iter % cfg.log_interval = 0 THEN 1 ELSE 0)
    /\ pc \in AfterIncrement \ LogPassed => Count(events, "log") = 0
    /\ (pc \in LogPassed /\ iter % cfg.log_interval = 0) =>
          /\ DOMAIN meters = MeterNames
          /\ \A n \in MeterNames : meters[n] = NewMeter
    /\ (pc \in LogPassed /\ iter % cfg.log_interval # 0) =>
          \A n \in MeterNames : MeterOf(meters, n).count = SinceReset
    /\ pc = "log" =>
          /\ DOMAIN meters = MeterNames
          /\ \A n \in MeterNames : meters[n].count = SinceReset
          /\ meters["dataTime"].sum = SinceReset
          /\ meters["modelTime"].sum = SinceReset
    /\ pc \in TrainingPass =>
          /\ MeterOf(meters, "dataTime").count =
                SinceResetAt(IF pc \in {"sched", "inc"} THEN iter + 1 ELSE iter)
          /\ \A n \in MeterNames \ {"dataTime"} :
                MeterOf(meters, n).count = MeterOf(meters, "dataTime").count - 1

\* the second log point of a run with log_interval 2: the meters were reset at
\* iteration 2 and have had the updates of iterations 3 and 4
C15_Witness ==
    /\ pc = "log"
    /\ cfg.log_interval = 2
    /\ hist.startIter = 0
    /\ iter = 4
    /\ meters["earlyLoss"].count = 2
    /\ meters["dataTime"] = [count |-> 2, sum |-> 2]

AveragedMeters == {"earlyLoss", "localLoss", "lossNum", "localNum"}

\* C16: at every log point, whatever log_interval >= 1 and wherever the
\* counter started, every meter whose average is read has had at least one
\* update since its last reset.
C16_NoEmptyAverage ==
    (pc = "log" /\ iter % cfg.log_interval = 0) =>
        \A n \in AveragedMeters : n \in DOMAIN meters /\ meters[n].count >= 1

C16_Witness ==
    /\ pc = "log"
    /\ iter % cfg.log_interval = 0
    /\ hist.startIter = PreIter
    /\ iter = PreIter + 1
    /\ meters["lossNum"] = [count |-> 1, sum |-> 0]

\* C17: train() stops at the budget from every starting value of the counter,
\* also one restored by load().  The counter only grows (line 143) and the
\* loop is left with the summary only when it equals cfg.num_iter (line 197),
\* so a run that stops at the budget never makes a training step with the
\* counter beyond it: stated as that necessary condition, which a finite run
\* refutes.
C17_StopsFromEveryStart ==
    pc \in AfterIncrement => iter <= cfg.num_iter

\* C18: in a run that started at iteration 0, every checkpoint the loop saves
\* records an iteration equal to the number of completed steps of each of the
\* three optimizers; at every save, evaluation and termination point the three
\* groups have made the same number of steps, one per iteration of the run;
\* no checkpoint is taken between the increment of the counter and the last
\* of the three steps.
SavedConsistent(f) ==
    /\ \A g \in GroupSet : hist.saved[f][3][g] = hist.saved[f][1]
    /\ (files[f].exists /\ files[f].complete) =>
          \A g \in GroupSet : files[f].data[OptKey(g)] = files[f].data["iteration"]
C18_CheckpointConsistent ==
    /\ (LoopBegun /\ pc \in StepsDone \cup BetweenIterations) =>
          \A g \in GroupSet : hist.steps[g] = iter - hist.startIter
    /\ hist.startIter = 0 =>
          /\ pc \in StepsDone \cup BetweenIterations =>
                \A g \in GroupSet : opt[g] = iter /\ hist.steps[g] = iter
          /\ \A f \in DOMAIN hist.saved : SavedConsistent(f)
    /\ pc \in AfterIncrement \ StepsDone => Count(events, "save") = 0

C18_Witness ==
    /\ pc = "test"
    /\ hist.startIter = 0
    /\ iter = 2
    /\ hist.saves = 2
    /\ files[FileOf(2)].complete
    /\ files[FileOf(2)].data["iteration"] = 2
    /\ \A g \in GroupSet : files[FileOf(2)].data[OptKey(g)] = 2 /\ hist.steps[g] = 2

\* C19: after the three optimizer steps the events of an iteration come in the
\* order log (when due), checkpoint save, evaluation with the best-score
\* update (when due), termination check.  In the last iteration the
\* checkpoint is written before the summary, and when num_iter is a multiple
\* of test_interval so are the evaluation and the best-score update.
IterationTail ==
    (IF LogDue THEN <<"log">> ELSE <<>>) \o <<"save", "saved">>
        \o (IF TestDue THEN <<"test", "collect">> ELSE <<>>)
IterationEvents ==
    Prelude \o GradientProtocol \o IterationTail
        \o (IF BudgetReached THEN <<"summary">> ELSE <<>>)
C19_EventOrder ==
    /\ pc \in AfterIncrement \cup {"terminated"} =>
          /\ Len(events) <= Len(IterationEvents)
          /\ \A i \in DOMAIN events : events[i] = IterationEvents[i]
    /\ pc \in AfterIncrement \ StepsDone =>
          Len(events) < Len(Prelude) + Len(GradientProtocol)
    /\ pc = "check" =>
          events = Prelude \o GradientProtocol \o IterationTail
    /\ pc = "terminated" =>
          /\ events = IterationEvents
          /\ events[Len(events)] = "summary"
          /\ files[FileOf(iter)].complete
          /\ cfg.num_iter % cfg.test_interval = 0 =>
                (events[Len(events) - 1] = "collect" /\ iter \in hist.tested)

C19_Witness ==
    /\ pc = "terminated"
    /\ iter = 2
    /\ cfg.test_interval = 2
    /\ SubSeq(events, Len(events) - 6, Len(events))
          = <<"step_local", "log", "save", "saved", "test", "collect", "summary">>
    /\ best_iter = 2

\* C20: when the first iteration of the loop begins, best_acc is [0] and
\* best_iter is -1, whether or not a checkpoint was loaded and whether or not
\* test_before_train ran _test: the evaluation before the loop leaves no
\* best score, the best score stays at its initial value until the loop's
\* first evaluation, best_iter is a counter value this run evaluated at, and
\* no checkpoint holds a best score to resume from.
BeforeLoop == {"start", "load", "pretest", "pretest_eval", "meters0"}
C20_BestInitialised ==
    /\ (pc = "fetch" /\ Batches = 0) => (best_acc = <<0>> /\ best_iter = -1)
    /\ pc \in BeforeLoop => (best_acc = NotSet /\ best_iter = NotSetIter)
    /\ (LoopBegun /\ hist.tested = {}) => (best_acc = <<0>> /\ best_iter = -1)
    /\ LoopBegun => /\ best_iter \in hist.tested \cup {-1}
                    /\ (best_iter = -1) = (best_acc = <<0>>)
    /\ \A f \in FileNames :
          (files[f].exists /\ files[f].complete) =>
              DOMAIN files[f].data \cap {"best_acc", "best_iter"} = {}

C20_Witness ==
    /\ pc = "fetch"
    /\ Batches = 0
    /\ cfg.test_before_train
    /\ hist.loaded # <<>>
    /\ hist.passes = 1
    /\ iter = PreIter
    /\ best_acc = <<0>>
    /\ best_iter = -1

====
